---- MODULE Spec2Model ----
(***************************************************************************)
(* The golden-ratio string builder of c-development-kit                    *)
(* (core/strings/string-builder/string-builder.c), as a state machine.     *)
(*                                                                         *)
(* One builder is modelled.  Its heap block is the sequence built_chain:   *)
(* offset i of the C array is element i + 1 of the sequence, and the       *)
(* length of the sequence is the number of slots malloc/realloc actually   *)
(* handed out, which the code does not always record in max_capacity.      *)
(***************************************************************************)
EXTENDS Integers, Sequences, FiniteSets, TLC

VARIABLES string_builder, last, appended, only_appends

vars == <<string_builder, last, appended, only_appends>>

----------------------------------------------------------------------------
(* Bounds of the model *)

\* No operation is taken that would leave more than MaxLen used characters.
MaxLen == 3

\* append_all is called with chains of 0 .. MaxChain characters.
MaxChain == 2

\* string_builder_create is called with 0 .. MaxInitialCapacity, and with 16.
MaxInitialCapacity == 1

\* No append is taken that would move the growth cursor beyond MaxIndex (a
\* failed reallocation moves the cursor without growing the block, so MaxLen
\* alone does not bound the cursor).
MaxIndex == 5

\* The characters a caller appends.
Chars == {"a", "b"}

\* In the growth runs no append is taken that would leave more than
\* MaxGrowthLen used characters, string_builder_create is called with
\* 0 .. MaxGrowthCapacity and with 16, and no append is taken that would move
\* the growth cursor beyond MaxGrowthIndex.
MaxGrowthLen == 16

MaxGrowthCapacity == 8

MaxGrowthIndex == 9

\* In the runs with a shortened table the table is the first
\* ShortSequenceSize entries of SEQUENCE, no append is taken that would
\* leave more than MaxFallbackLen used characters, and the builder is
\* created with a capacity of 0 .. MaxFallbackCapacity.
ShortSequenceSize == 4

MaxFallbackLen == 12

MaxFallbackCapacity == 4

----------------------------------------------------------------------------
(* Memory *)

\* The terminator '\0'.
NUL == "NUL"

\* A slot nothing has written since it was allocated, or a value read from
\* outside the block: its value is indeterminate until somebody looks at it.
INDETERMINATE == "?"

\* What a reader can find in a slot.
Observable == Chars \cup {NUL}

\* size_t is unsigned and wraps.  TLC's integers are 32 bits wide, so the
\* model gives size_t 31 bits; every size below stays far from SIZE_MAX
\* except through the wrap of 0 - 1, which is the same at any width.
SIZE_MAX == 2147483647

SizeAdd(a, b) == IF a <= SIZE_MAX - b THEN a + b ELSE a - (SIZE_MAX - b) - 1

SizeSub(a, b) == IF a >= b THEN a - b ELSE (SIZE_MAX - b) + a + 1

Min(a, b) == IF a <= b THEN a ELSE b

\* malloc(n): n slots of indeterminate content.
Malloc(n) == [i \in 1..n |-> INDETERMINATE]

\* realloc(chain, n) when it succeeds: the content is kept up to the lesser
\* of the old and the new size, the rest is indeterminate.
Realloc(chain, n) ==
    [i \in 1..n |-> IF i <= Len(chain) THEN chain[i] ELSE INDETERMINATE]

\* *(chain + offset): a read outside the block is undefined, the value read
\* is indeterminate.
Load(chain, offset) ==
    IF offset < Len(chain) THEN chain[offset + 1] ELSE INDETERMINATE

\* *(chain + offset) = value: a write outside the block does not reach the
\* block (what it does reach is not modelled; the operations report it as oob).
Store(chain, offset, value) ==
    IF offset < Len(chain) THEN [chain EXCEPT ![offset + 1] = value] ELSE chain

\* The n slots from offset on are not all slots of the block.
Outside(chain, offset, n) ==
    n > 0 /\ (offset > Len(chain) \/ n > Len(chain) - offset)

\* memcpy(chain + to, from, n) from a caller's array.
RECURSIVE CopyIn(_, _, _)
CopyIn(chain, to, from) ==
    IF from = <<>> THEN chain
    ELSE CopyIn(Store(chain, to, Head(from)), to + 1, Tail(from))

\* memcpy(chain + to, chain + from, n) inside one block, copying upwards.
RECURSIVE MemcpyForward(_, _, _, _)
MemcpyForward(chain, to, from, n) ==
    IF n = 0 THEN chain
    ELSE MemcpyForward(Store(chain, to, Load(chain, from)), to + 1, from + 1, n - 1)

\* The same, copying downwards from the last byte.
RECURSIVE MemcpyBackward(_, _, _, _)
MemcpyBackward(chain, to, from, n) ==
    IF n = 0 THEN chain
    ELSE MemcpyBackward(Store(chain, to + n - 1, Load(chain, from + n - 1)),
                        to, from, n - 1)

\* memcpy on regions that may overlap is undefined: libraries copy in either
\* direction.  Bytes whose destination lies outside the block do not reach
\* it, so only the part of the count that lands in the block is walked.
Memcpy(chain, to, from, n, direction) ==
    LET inside == IF to < Len(chain) THEN Min(n, Len(chain) - to) ELSE 0
    IN  IF direction = "forward"
        THEN MemcpyForward(chain, to, from, inside)
        ELSE MemcpyBackward(chain, to, from, inside)

\* The array at offsets 0 .. n - 1 of a pointer into the block.
View(chain, n) == [i \in 1..n |-> Load(chain, i - 1)]

\* The arrays a reader may find where raw holds indeterminate slots.
RECURSIVE Resolve(_)
Resolve(raw) ==
    IF raw = <<>> THEN {<<>>}
    ELSE LET first == IF Head(raw) = INDETERMINATE THEN Observable ELSE {Head(raw)}
         IN  {<<value>> \o rest : value \in first, rest \in Resolve(Tail(raw))}

----------------------------------------------------------------------------
(* The cached growth sequence *)

DEFAULT_INITIAL_CAPACITY == 16

\* SEQUENCE[i + 1] is the C array's SEQUENCE[i].
SEQUENCE ==
    <<0, 1, 2, 4, 7, 11, 17, 26, 40, 61, 92, 139, 209, 314, 472, 709, 1064,
      1597, 2396, 3595, 5393, 8090, 12136, 18205, 27308, 40963, 61445, 92168,
      138253, 207380, 311071, 466607, 699911, 1049867, 1574801, 2362202,
      3543304, 5314957, 7972436, 11958655, 17937983, 26906975, 40360463,
      60540695, 90811043, 136216565, 204324848, 306487273, 459730910,
      689596366, 1034394550>>

SEQUENCE_SIZE == Len(SEQUENCE)

SEQUENCE_INIT_NEXT_INDEX == 7

\* The while loop of the binary search; it returns the last middle.
RECURSIVE BinarySearch(_, _, _, _, _)
BinarySearch(table, capacity, left, right, middle) ==
    IF left <= right
    THEN LET m == left + ((right - left) \div 2)
         IN  IF table[m + 1] <= capacity
             THEN BinarySearch(table, capacity, m + 1, right, m)
             ELSE BinarySearch(table, capacity, left, m - 1, m)
    ELSE middle

string_builder_compute_next_best_sequence_value_index(capacity) ==
    IF capacity = DEFAULT_INITIAL_CAPACITY
    THEN SEQUENCE_INIT_NEXT_INDEX
    ELSE BinarySearch(SEQUENCE, capacity, 0, SEQUENCE_SIZE - 1, 0)

\* The recurrence without its "+ 1".
GrowthStepWithoutIncrement(size) == SizeAdd(size, SizeAdd(size, size)) \div 2

\* A recurrence that doubles: new_size = (new_size << 1) + 1.
GrowthStepDoubling(size) == SizeAdd(SizeAdd(size, size), 1)

\* new_size = ((new_size + (new_size << 1)) >> 1) + 1, in size_t.
GrowthStep(size) == SizeAdd(SizeAdd(size, SizeAdd(size, size)) \div 2, 1)

\* The first while loop restarting from the table's first term on each call.
AdvanceIndexFromStart(table, index, needed) ==
    CHOOSE i \in 1..Len(table) :
        /\ i = Len(table) \/ table[i + 1] - 1 >= needed
        /\ \A j \in 1..(i - 1) : table[j + 1] - 1 < needed

\* compute_new_size without its first while loop: the entry at the cursor
\* is taken as it is.
AdvanceIndexWithoutScan(table, index, needed) == index

\* The first while loop with the terminator's slot left out of the test.
RECURSIVE AdvanceIndexIgnoringTerminator(_, _, _)
AdvanceIndexIgnoringTerminator(table, index, needed) ==
    IF index < Len(table) /\ table[index + 1] < needed
    THEN AdvanceIndexIgnoringTerminator(table, index + 1, needed)
    ELSE index

\* The first while loop of compute_new_size: the cursor moves forward while
\* it is inside the table and its entry is too small for `needed`.
RECURSIVE AdvanceIndex(_, _, _)
AdvanceIndex(table, index, needed) ==
    IF index < Len(table) /\ SizeSub(table[index + 1], 1) < needed
    THEN AdvanceIndex(table, index + 1, needed)
    ELSE index

\* The second while loop: the recurrence applied until the size suffices.
RECURSIVE Recurrence(_, _)
Recurrence(new_size, needed) ==
    IF SizeSub(new_size, 1) < needed
    THEN Recurrence(GrowthStep(new_size), needed)
    ELSE new_size

\* compute_new_size over a given table: the size, and the cursor it leaves.
ComputeNewSizeIn(table, index, needed) ==
    LET found == AdvanceIndex(table, index, needed)
    IN  IF found < Len(table)
        THEN [new_size |-> table[found + 1], current_sequence_index |-> found + 1]
        ELSE [new_size |-> Recurrence(table[Len(table)], needed),
              current_sequence_index |-> found]

string_builder_compute_new_size(sb, chars_amount) ==
    ComputeNewSizeIn(SEQUENCE, sb.current_sequence_index,
                     SizeAdd(sb.used_capacity, chars_amount))

\* string_builder_compute_new_size of string-builder.c, which has no table:
\* the recurrence applied from the current capacity.
DirectComputeNewSize(sb, chars_amount) ==
    Recurrence(sb.max_capacity, SizeAdd(sb.used_capacity, chars_amount))

\* The capacity string-builder.c's string_builder_ensure_capacity leaves
\* when its realloc succeeds.
DirectEnsureCapacity(sb, chars_amount) ==
    IF SizeSub(sb.max_capacity, 1) >= SizeAdd(sb.used_capacity, chars_amount)
    THEN sb.max_capacity
    ELSE DirectComputeNewSize(sb, chars_amount)

----------------------------------------------------------------------------
(* The operations.  Each takes the builder and the call's arguments, and   *)
(* whether the allocation the call may make succeeds; each returns the     *)
(* builder afterwards with the call's result.                              *)

\* The builder string_builder_create returns when both mallocs succeed.
string_builder_create(initial_capacity) ==
    [built_chain |-> Malloc(initial_capacity),
     used_capacity |-> 0,
     max_capacity |-> initial_capacity,
     current_sequence_index |->
         string_builder_compute_next_best_sequence_value_index(initial_capacity)]

string_builder_create_default == string_builder_create(DEFAULT_INITIAL_CAPACITY)

\* An ensure_capacity without the test of chars_amount.
EnsureCapacityWithoutAmountCheck(sb, chars_amount, realloc_ok, new_size) ==
    IF SizeSub(sb.max_capacity, 1) >= SizeAdd(sb.used_capacity, chars_amount)
    THEN [sb |-> sb, ret |-> TRUE, realloc_failed |-> FALSE, reallocs |-> 0]
    ELSE IF realloc_ok
    THEN [sb |-> [sb EXCEPT
                     !.current_sequence_index = new_size.current_sequence_index,
                     !.built_chain = Realloc(sb.built_chain, new_size.new_size),
                     !.max_capacity = new_size.new_size],
          ret |-> TRUE, realloc_failed |-> FALSE, reallocs |-> 1]
    ELSE [sb |-> [sb EXCEPT
                     !.current_sequence_index = new_size.current_sequence_index],
          ret |-> FALSE, realloc_failed |-> TRUE, reallocs |-> 1]

\* string_builder_ensure_capacity, given what its call of
\* string_builder_compute_new_size yields (the size and the cursor it leaves).
\* ret: the bool returned; realloc_failed: realloc was called and returned
\* NULL; reallocs: the number of calls of realloc.
EnsureCapacityWith(sb, chars_amount, realloc_ok, new_size) ==
    IF chars_amount < 1
    THEN [sb |-> sb, ret |-> FALSE, realloc_failed |-> FALSE, reallocs |-> 0]
    ELSE IF SizeSub(sb.max_capacity, 1) >= SizeAdd(sb.used_capacity, chars_amount)
    THEN [sb |-> sb, ret |-> TRUE, realloc_failed |-> FALSE, reallocs |-> 0]
    ELSE LET computed == new_size
             moved == [sb EXCEPT !.current_sequence_index =
                                     computed.current_sequence_index]
         IN  IF realloc_ok
             THEN [sb |-> [moved EXCEPT
                              !.built_chain = Realloc(sb.built_chain, computed.new_size),
                              !.max_capacity = computed.new_size],
                   ret |-> TRUE, realloc_failed |-> FALSE, reallocs |-> 1]
             ELSE [sb |-> moved, ret |-> FALSE, realloc_failed |-> TRUE,
                   reallocs |-> 1]

string_builder_ensure_capacity(sb, chars_amount, realloc_ok) ==
    EnsureCapacityWith(sb, chars_amount, realloc_ok,
                       string_builder_compute_new_size(sb, chars_amount))

\* oob: the call wrote outside the block; ensures, reallocs: the number of
\* calls of string_builder_ensure_capacity and of realloc.
string_builder_append_one(sb, character, realloc_ok) ==
    LET ensured == string_builder_ensure_capacity(sb, 1, realloc_ok)
        at == ensured.sb.used_capacity
    IN  IF ~ensured.ret
        THEN [sb |-> ensured.sb, ret |-> FALSE,
              realloc_failed |-> ensured.realloc_failed, oob |-> FALSE,
              ensures |-> 1, reallocs |-> ensured.reallocs]
        ELSE [sb |-> [ensured.sb EXCEPT
                         !.built_chain = Store(ensured.sb.built_chain, at, character),
                         !.used_capacity = SizeAdd(at, 1)],
              ret |-> TRUE, realloc_failed |-> FALSE,
              oob |-> Outside(ensured.sb.built_chain, at, 1),
              ensures |-> 1, reallocs |-> ensured.reallocs]

\* An append_all that appends its chain one character at a time.
RECURSIVE AppendAllPerCharacter(_, _, _)
AppendAllPerCharacter(sb, chain, realloc_ok) ==
    IF chain = <<>>
    THEN [sb |-> sb, ret |-> TRUE, realloc_failed |-> FALSE, oob |-> FALSE,
          ensures |-> 0, reallocs |-> 0]
    ELSE LET one == string_builder_append_one(sb, Head(chain), realloc_ok)
             rest == AppendAllPerCharacter(one.sb, Tail(chain), realloc_ok)
         IN  IF ~one.ret THEN one
             ELSE [rest EXCEPT !.oob = @ \/ one.oob,
                               !.ensures = @ + one.ensures,
                               !.reallocs = @ + one.reallocs]

\* string_builder_append_all, given what its call of
\* string_builder_ensure_capacity yields.
AppendAllWith(sb, chain, is_capacity_ensured) ==
    LET chain_size == Len(chain)
        ensured == is_capacity_ensured
        at == ensured.sb.used_capacity
    IN  IF ~ensured.ret
        THEN [sb |-> ensured.sb, ret |-> FALSE,
              realloc_failed |-> ensured.realloc_failed, oob |-> FALSE,
              ensures |-> 1, reallocs |-> ensured.reallocs]
        ELSE [sb |-> [ensured.sb EXCEPT
                         !.built_chain = CopyIn(ensured.sb.built_chain, at, chain),
                         !.used_capacity = SizeAdd(at, chain_size)],
              ret |-> TRUE, realloc_failed |-> FALSE,
              oob |-> Outside(ensured.sb.built_chain, at, chain_size),
              ensures |-> 1, reallocs |-> ensured.reallocs]

string_builder_append_all(sb, chain, realloc_ok) ==
    AppendAllWith(sb, chain,
                  string_builder_ensure_capacity(sb, Len(chain), realloc_ok))

\* The shift of string_builder_remove with the length reduced by
\* stop_index - start_index, as for a stop_index that is exclusive.
RemoveRangeExclusiveStop(sb, start_index, stop_index, direction) ==
    LET next == stop_index + 1
        amount_to_move == SizeSub(sb.used_capacity, stop_index + 1)
    IN  [sb |-> [sb EXCEPT
                    !.built_chain = Memcpy(sb.built_chain, start_index, next,
                                           amount_to_move, direction),
                    !.used_capacity =
                        SizeSub(sb.used_capacity, SizeSub(stop_index, start_index))],
         ret |-> TRUE,
         oob |-> \/ Outside(sb.built_chain, next, amount_to_move)
                 \/ Outside(sb.built_chain, start_index, amount_to_move)]

\* The shift and the length update of string_builder_remove, once the
\* indexes have passed its checks.
RemoveRange(sb, start_index, stop_index, direction) ==
    LET next == stop_index + 1
        amount_to_move == SizeSub(sb.used_capacity, stop_index + 1)
    IN  [sb |-> [sb EXCEPT
                    !.built_chain = Memcpy(sb.built_chain, start_index, next,
                                           amount_to_move, direction),
                    !.used_capacity =
                        SizeSub(sb.used_capacity,
                                SizeAdd(SizeSub(stop_index, start_index), 1))],
         ret |-> TRUE,
         oob |-> \/ Outside(sb.built_chain, next, amount_to_move)
                 \/ Outside(sb.built_chain, start_index, amount_to_move)]

\* string_builder_remove with stop_index tested against max_capacity.
string_builder_remove_capacity_bound(sb, start_index, stop_index, direction) ==
    IF sb.used_capacity = 0
    THEN [sb |-> sb, ret |-> FALSE, oob |-> FALSE]
    ELSE IF stop_index >= sb.max_capacity
    THEN [sb |-> sb, ret |-> FALSE, oob |-> FALSE]
    ELSE RemoveRange(sb, start_index, stop_index, direction)

\* string_builder_remove as the file's earlier revisions had it: no test for
\* an empty builder, stop_index tested against max_capacity - 1.
string_builder_remove_no_empty_check(sb, start_index, stop_index, direction) ==
    IF stop_index > SizeSub(sb.max_capacity, 1)
    THEN [sb |-> sb, ret |-> FALSE, oob |-> FALSE]
    ELSE RemoveRange(sb, start_index, stop_index, direction)

\* direction: the order in which this build's memcpy copies.
string_builder_remove(sb, start_index, stop_index, direction) ==
    IF sb.used_capacity = 0
    THEN [sb |-> sb, ret |-> FALSE, oob |-> FALSE]
    ELSE IF stop_index >= sb.used_capacity
    THEN [sb |-> sb, ret |-> FALSE, oob |-> FALSE]
    ELSE RemoveRange(sb, start_index, stop_index, direction)

\* A clear that resets the length and keeps the storage it has.
string_builder_clear_in_place(sb, malloc_ok) ==
    IF ~malloc_ok
    THEN [sb |-> sb, ret |-> FALSE]
    ELSE [sb |-> [sb EXCEPT !.used_capacity = 0], ret |-> TRUE]

\* A clear that leaves the cursor one entry further on in the table.
string_builder_clear_cursor_ahead(sb, malloc_ok) ==
    IF ~malloc_ok
    THEN [sb |-> sb, ret |-> FALSE]
    ELSE [sb |-> [built_chain |-> <<NUL>>,
                  used_capacity |-> 0,
                  current_sequence_index |-> 3,
                  max_capacity |-> 1],
          ret |-> TRUE]

\* malloc_ok: the malloc of the new one-slot chain succeeds.
string_builder_clear(sb, malloc_ok) ==
    IF ~malloc_ok
    THEN [sb |-> sb, ret |-> FALSE]
    ELSE [sb |-> [built_chain |-> <<NUL>>,
                  used_capacity |-> 0,
                  current_sequence_index |-> 2,
                  max_capacity |-> 1],
          ret |-> TRUE]

\* ret: the pointer returned is not NULL; out: what lies at offsets
\* 0 .. used_capacity of the pointer returned.
string_builder_result(sb, realloc_ok) ==
    LET shrink == sb.used_capacity # SizeSub(sb.max_capacity, 1)
        new_size == SizeAdd(sb.used_capacity, 1)
        resized == IF shrink THEN Realloc(sb.built_chain, new_size)
                             ELSE sb.built_chain
        ended == Store(resized, sb.used_capacity, NUL)
    IN  IF shrink /\ ~realloc_ok
        THEN [sb |-> sb, ret |-> FALSE, out |-> <<>>,
              realloc_failed |-> TRUE, oob |-> FALSE]
        ELSE [sb |-> [sb EXCEPT !.built_chain = ended],
              ret |-> TRUE,
              out |-> [i \in 1..(sb.used_capacity + 1) |-> Load(ended, i - 1)],
              realloc_failed |-> FALSE,
              oob |-> Outside(resized, sb.used_capacity, 1)]

string_builder_result_as_copy(sb, malloc_ok) ==
    IF ~malloc_ok
    THEN [sb |-> sb, ret |-> FALSE, out |-> <<>>, oob |-> FALSE]
    ELSE [sb |-> sb,
          ret |-> TRUE,
          out |-> [i \in 1..(sb.used_capacity + 1) |->
                      IF i <= sb.used_capacity THEN Load(sb.built_chain, i - 1)
                                               ELSE NUL],
          oob |-> Outside(sb.built_chain, 0, sb.used_capacity)]

string_builder_size(sb) == sb.used_capacity

string_builder_max_capacity(sb) == sb.max_capacity

----------------------------------------------------------------------------
(* The state machine *)

Chains == UNION {[1..n -> Chars] : n \in 0..MaxChain}

Indexes == 0..MaxLen

Directions == {"forward", "backward"}

CursorWithinBound(sb) ==
    \/ sb.current_sequence_index <= MaxIndex
    \/ sb.current_sequence_index = string_builder.current_sequence_index

\* The slots from used_capacity on hold nothing the builder owns as content:
\* the model forgets what they held.  Code that reads one finds an
\* indeterminate value, which covers the stale one.
Forget(sb) ==
    [sb EXCEPT !.built_chain =
        [i \in 1..Len(sb.built_chain) |->
            IF i <= sb.used_capacity THEN sb.built_chain[i] ELSE INDETERMINATE]]

\* The blocks memory may hold where the first n slots of chain, as far as
\* they lie in the block, have taken their values.
ResolveBlock(chain, n) ==
    LET inside == Min(n, Len(chain))
    IN  {prefix \o SubSeq(chain, inside + 1, Len(chain)) :
            prefix \in Resolve(SubSeq(chain, 1, inside))}

\* The last call: which operation, whether it reported success (true, or a
\* pointer that is not NULL), and whether an allocation it asked for failed.
Call(op, ret, alloc_failed) == [op |-> op, ret |-> ret, alloc_failed |-> alloc_failed]

\* A builder as its constructor returned it, and nothing done to it yet.
Created(sb) ==
    /\ string_builder = sb
    /\ last = Call("create", TRUE, FALSE)
    /\ appended = <<>>
    /\ only_appends = TRUE

\* The state after construction: string_builder_create_default() or
\* string_builder_create(c) has returned a builder (for c = 0, malloc(0)
\* returned a pointer and not NULL).
Init ==
    \/ Created(string_builder_create_default)
    \/ \E c \in 0..MaxInitialCapacity : Created(string_builder_create(c))

AppendOne ==
    \E character \in Chars, realloc_ok \in BOOLEAN :
        LET r == string_builder_append_one(string_builder, character, realloc_ok)
        IN  /\ string_builder.used_capacity + 1 <= MaxLen
            /\ CursorWithinBound(r.sb)
            /\ string_builder' = Forget(r.sb)
            /\ last' = Call("append_one", r.ret, r.realloc_failed)
            /\ appended' = IF r.ret /\ only_appends
                           THEN Append(appended, character) ELSE appended
            /\ UNCHANGED only_appends

AppendAll ==
    \E chain \in Chains, realloc_ok \in BOOLEAN :
        LET r == string_builder_append_all(string_builder, chain, realloc_ok)
        IN  /\ string_builder.used_capacity + Len(chain) <= MaxLen
            /\ CursorWithinBound(r.sb)
            /\ string_builder' = Forget(r.sb)
            /\ last' = Call("append_all", r.ret, r.realloc_failed)
            /\ appended' = IF r.ret /\ only_appends
                           THEN appended \o chain ELSE appended
            /\ UNCHANGED only_appends

Remove ==
    \E start_index \in Indexes, stop_index \in Indexes, direction \in Directions :
        LET r == string_builder_remove(string_builder, start_index, stop_index,
                                       direction)
        IN  /\ r.sb.used_capacity <= MaxLen
            /\ string_builder' = Forget(r.sb)
            /\ last' = Call("remove", r.ret, FALSE)
            /\ only_appends' = (only_appends /\ ~r.ret)
            /\ appended' = IF r.ret THEN <<>> ELSE appended

Clear ==
    \E malloc_ok \in BOOLEAN :
        LET r == string_builder_clear(string_builder, malloc_ok)
        IN  /\ string_builder' = Forget(r.sb)
            /\ last' = Call("clear", r.ret, ~malloc_ok)
            /\ only_appends' = (only_appends /\ ~r.ret)
            /\ appended' = IF r.ret THEN <<>> ELSE appended

Result ==
    \E realloc_ok \in BOOLEAN :
        LET r == string_builder_result(string_builder, realloc_ok)
        IN  /\ string_builder' = Forget(r.sb)
            /\ last' = Call("result", r.ret, r.realloc_failed)
            /\ UNCHANGED <<appended, only_appends>>

ResultAsCopy ==
    \E malloc_ok \in BOOLEAN :
        LET r == string_builder_result_as_copy(string_builder, malloc_ok)
        IN  /\ string_builder' = Forget(r.sb)
            /\ last' = Call("result_as_copy", r.ret, ~malloc_ok)
            /\ UNCHANGED <<appended, only_appends>>

Next ==
    \/ AppendOne
    \/ AppendAll
    \/ Remove
    \/ Clear
    \/ Result
    \/ ResultAsCopy

Spec == Init /\ [][Next]_vars

----------------------------------------------------------------------------
(* The growth runs: a builder of any small initial capacity, and appends   *)
(* only, of chains long enough to cross several entries of the table.      *)
(* What is appended is the character "a"; growth does not read it.         *)

GrowthChains == {[i \in 1..k |-> "a"] : k \in 0..MaxGrowthLen}

GrowthCapacities == (0..MaxGrowthCapacity) \cup {DEFAULT_INITIAL_CAPACITY}

\* The last call of a growth run, with the builder as it was before the call
\* (for create: as it was returned), the call's size argument
\* (initial_capacity, 1 for append_one, strlen(chain) for append_all), the
\* calls of ensure_capacity and of realloc it made, and whether the run so
\* far is a create with a capacity >= 1 followed by successful appends.
GrowthCall(op, ret, alloc_failed, before, argument, ensures, reallocs, clean) ==
    [op |-> op, ret |-> ret, alloc_failed |-> alloc_failed, before |-> before,
     argument |-> argument, ensures |-> ensures, reallocs |-> reallocs,
     clean |-> clean]

GrowthInit ==
    \E c \in GrowthCapacities :
        /\ string_builder = string_builder_create(c)
        /\ last = GrowthCall("create", TRUE, FALSE, string_builder_create(c), c,
                             0, 0, c >= 1)
        /\ appended = <<>>
        /\ only_appends = TRUE

GrowthAppendOne ==
    \E realloc_ok \in BOOLEAN :
        LET r == string_builder_append_one(string_builder, "a", realloc_ok)
        IN  /\ string_builder.used_capacity + 1 <= MaxGrowthLen
            /\ r.sb.current_sequence_index <= MaxGrowthIndex
            /\ string_builder' = Forget(r.sb)
            /\ last' = GrowthCall("append_one", r.ret, r.realloc_failed,
                                  string_builder, 1, r.ensures, r.reallocs,
                                  last.clean /\ r.ret)
            /\ appended' = IF r.ret THEN Append(appended, "a") ELSE appended
            /\ UNCHANGED only_appends

GrowthAppendAll ==
    \E chain \in GrowthChains, realloc_ok \in BOOLEAN :
        LET r == string_builder_append_all(string_builder, chain, realloc_ok)
        IN  /\ string_builder.used_capacity + Len(chain) <= MaxGrowthLen
            /\ r.sb.current_sequence_index <= MaxGrowthIndex
            /\ string_builder' = Forget(r.sb)
            /\ last' = GrowthCall("append_all", r.ret, r.realloc_failed,
                                  string_builder, Len(chain), r.ensures,
                                  r.reallocs, last.clean /\ r.ret)
            /\ appended' = IF r.ret THEN appended \o chain ELSE appended
            /\ UNCHANGED only_appends

GrowthNext ==
    \/ GrowthAppendOne
    \/ GrowthAppendAll

GrowthSpec == GrowthInit /\ [][GrowthNext]_vars

----------------------------------------------------------------------------
(* The runs with a shortened table: the code of the growth runs with    *)
(* SEQUENCE cut to its first entries, so that appends of a few characters  *)
(* exhaust it.                                                             *)

ShortSequence == SubSeq(SEQUENCE, 1, ShortSequenceSize)

\* string_builder_create over the shortened table.
FallbackCreate(initial_capacity) ==
    [string_builder_create(initial_capacity) EXCEPT
        !.current_sequence_index =
            BinarySearch(ShortSequence, initial_capacity, 0,
                         Len(ShortSequence) - 1, 0)]

\* string_builder_append_all over the shortened table.
FallbackAppendAllOf(sb, chain, realloc_ok) ==
    AppendAllWith(sb, chain,
        EnsureCapacityWith(sb, Len(chain), realloc_ok,
            ComputeNewSizeIn(ShortSequence, sb.current_sequence_index,
                             SizeAdd(sb.used_capacity, Len(chain)))))

FallbackInit ==
    \E c \in 0..MaxFallbackCapacity :
        /\ string_builder = FallbackCreate(c)
        /\ last = GrowthCall("create", TRUE, FALSE, FallbackCreate(c), c,
                             0, 0, c >= 1)
        /\ appended = <<>>
        /\ only_appends = TRUE

FallbackAppendAll ==
    \E chain \in GrowthChains, realloc_ok \in BOOLEAN :
        LET r == FallbackAppendAllOf(string_builder, chain, realloc_ok)
        IN  /\ string_builder.used_capacity + Len(chain) <= MaxFallbackLen
            /\ string_builder' = Forget(r.sb)
            /\ last' = GrowthCall("append_all", r.ret, r.realloc_failed,
                                  string_builder, Len(chain), r.ensures,
                                  r.reallocs, last.clean /\ r.ret)
            /\ appended' = IF r.ret THEN appended \o chain ELSE appended
            /\ UNCHANGED only_appends

FallbackNext == FallbackAppendAll

FallbackSpec == FallbackInit /\ [][FallbackNext]_vars

----------------------------------------------------------------------------
(* The lifetime runs: the builder with the blocks malloc and realloc hand   *)
(* out and free takes back.  Blocks are numbered in the order they are      *)
(* allocated; frees[b] counts the calls of free (or of a realloc that       *)
(* moves) on block b.  heap is the record [frees, chain, record]: the       *)
(* counts, the block built_chain points to and the block of the struct.     *)

\* In the lifetime runs no append is taken that would leave more than
\* MaxLifetimeLen used characters or move the growth cursor beyond MaxIndex,
\* and no call that would allocate more than MaxBlocks blocks in all.
MaxLifetimeLen == 2

MaxBlocks == 4

\* The null pointer, which names no block.
NULL == 0

\* malloc returning a block: the next number, released zero times.
HeapMalloc(frees) == Append(frees, 0)

\* free(block).
HeapFree(frees, block) == [frees EXCEPT ![block] = @ + 1]

\* realloc(built_chain, n) returning a block: the same one, or a new one
\* with the old one released.
HeapRealloc(heap, moved) ==
    IF moved
    THEN [heap EXCEPT !.frees = HeapMalloc(HeapFree(heap.frees, heap.chain)),
                      !.chain = Len(heap.frees) + 1]
    ELSE heap

\* A create that returns NULL when the second malloc fails and leaves the
\* chain it has allocated.
CreateAllocatingLeakingChain(initial_capacity, chain_ok, record_ok) ==
    IF initial_capacity < 0 \/ ~chain_ok
    THEN [ret |-> FALSE, sb |-> NULL,
          heap |-> [frees |-> <<>>, chain |-> NULL, record |-> NULL]]
    ELSE IF ~record_ok
    THEN [ret |-> FALSE, sb |-> NULL,
          heap |-> [frees |-> HeapMalloc(<<>>), chain |-> NULL, record |-> NULL]]
    ELSE [ret |-> TRUE, sb |-> string_builder_create(initial_capacity),
          heap |-> [frees |-> HeapMalloc(HeapMalloc(<<>>)),
                    chain |-> 1, record |-> 2]]

\* string_builder_create with its two mallocs: ret is whether the pointer
\* returned is not NULL, sb the struct it points to.
CreateAllocating(initial_capacity, chain_ok, record_ok) ==
    IF initial_capacity < 0 \/ ~chain_ok
    THEN [ret |-> FALSE, sb |-> NULL,
          heap |-> [frees |-> <<>>, chain |-> NULL, record |-> NULL]]
    ELSE IF ~record_ok
    THEN [ret |-> FALSE, sb |-> NULL,
          heap |-> [frees |-> HeapFree(HeapMalloc(<<>>), 1),
                    chain |-> NULL, record |-> NULL]]
    ELSE [ret |-> TRUE, sb |-> string_builder_create(initial_capacity),
          heap |-> [frees |-> HeapMalloc(HeapMalloc(<<>>)),
                    chain |-> 1, record |-> 2]]

\* The blocks after string_builder_ensure_capacity, as called by an append
\* whose result is r.
EnsureCapacityAllocating(heap, r, moved) ==
    IF r.reallocs = 1 /\ ~r.realloc_failed THEN HeapRealloc(heap, moved) ELSE heap

\* The blocks after string_builder_clear.
ClearAllocating(heap, malloc_ok) ==
    IF ~malloc_ok
    THEN heap
    ELSE [heap EXCEPT !.frees = HeapFree(HeapMalloc(heap.frees), heap.chain),
                      !.chain = Len(heap.frees) + 1]

\* The blocks after string_builder_result on the builder sb.
ResultAllocating(heap, sb, realloc_ok, moved) ==
    IF sb.used_capacity # SizeSub(sb.max_capacity, 1) /\ realloc_ok
    THEN HeapRealloc(heap, moved)
    ELSE heap

string_builder_destroy(heap) ==
    IF heap.record # NULL
    THEN [heap EXCEPT !.frees =
             HeapFree(IF heap.chain # NULL THEN HeapFree(heap.frees, heap.chain)
                                           ELSE heap.frees,
                      heap.record)]
    ELSE heap

\* A destroy_except_chain that releases the chain as well.
DestroyExceptChainReleasingChain(heap) == string_builder_destroy(heap)

string_builder_destroy_except_chain(heap) ==
    IF heap.record # NULL
    THEN [heap EXCEPT !.frees = HeapFree(heap.frees, heap.record)]
    ELSE heap

\* The last call of a lifetime run: its size argument (initial_capacity for
\* create), the blocks after it, and the block of the pointer result() last
\* returned (NULL if it has returned none).
LifetimeCall(op, ret, alloc_failed, argument, heap, given) ==
    [op |-> op, ret |-> ret, alloc_failed |-> alloc_failed,
     argument |-> argument, heap |-> heap, given |-> given]

LifetimeCapacities == (0..MaxInitialCapacity) \cup {DEFAULT_INITIAL_CAPACITY}

LifetimeInit ==
    \E c \in LifetimeCapacities, chain_ok \in BOOLEAN, record_ok \in BOOLEAN :
        LET r == CreateAllocating(c, chain_ok, record_ok)
        IN  /\ string_builder = r.sb
            /\ last = LifetimeCall("create", r.ret, ~r.ret, c, r.heap, NULL)
            /\ appended = <<>>
            /\ only_appends = TRUE

\* The caller holds a builder: create returned one and neither destroy has
\* been called.
Alive == last.heap.record # NULL /\ last.heap.frees[last.heap.record] = 0

LifetimeAppendAll ==
    \E chain \in Chains, realloc_ok \in BOOLEAN, moved \in BOOLEAN :
        LET r == string_builder_append_all(string_builder, chain, realloc_ok)
            heap == EnsureCapacityAllocating(last.heap, r, moved)
        IN  /\ Alive
            /\ string_builder.used_capacity + Len(chain) <= MaxLifetimeLen
            /\ r.sb.current_sequence_index <= MaxIndex
            /\ Len(heap.frees) <= MaxBlocks
            /\ string_builder' = Forget(r.sb)
            /\ last' = LifetimeCall("append_all", r.ret, r.realloc_failed,
                                    Len(chain), heap, last.given)
            /\ UNCHANGED <<appended, only_appends>>

LifetimeRemove ==
    \E start_index \in 0..MaxLifetimeLen, stop_index \in 0..MaxLifetimeLen,
       direction \in Directions :
        LET r == string_builder_remove(string_builder, start_index, stop_index,
                                       direction)
        IN  /\ Alive
            /\ r.sb.used_capacity <= MaxLifetimeLen
            /\ string_builder' = Forget(r.sb)
            /\ last' = LifetimeCall("remove", r.ret, FALSE, 0, last.heap, last.given)
            /\ UNCHANGED <<appended, only_appends>>

LifetimeClear ==
    \E malloc_ok \in BOOLEAN :
        LET r == string_builder_clear(string_builder, malloc_ok)
            heap == ClearAllocating(last.heap, malloc_ok)
        IN  /\ Alive
            /\ Len(heap.frees) <= MaxBlocks
            /\ string_builder' = Forget(r.sb)
            /\ last' = LifetimeCall("clear", r.ret, ~malloc_ok, 0, heap, last.given)
            /\ UNCHANGED <<appended, only_appends>>

\* result() leaves the terminator in the block, at offset used_capacity:
\* the block is kept as result() left it, for the caller reads it.
LifetimeResult ==
    \E realloc_ok \in BOOLEAN, moved \in BOOLEAN :
        LET r == string_builder_result(string_builder, realloc_ok)
            heap == ResultAllocating(last.heap, string_builder, realloc_ok, moved)
        IN  /\ Alive
            /\ Len(heap.frees) <= MaxBlocks
            /\ string_builder' = r.sb
            /\ last' = LifetimeCall("result", r.ret, r.realloc_failed, 0, heap,
                                    IF r.ret THEN heap.chain ELSE NULL)
            /\ UNCHANGED <<appended, only_appends>>

\* The chain as memory holds it once the blocks are as in heap: what a
\* released block holds is indeterminate.
Held(sb, heap) ==
    IF heap.chain # NULL /\ heap.frees[heap.chain] > 0
    THEN [sb EXCEPT !.built_chain = [i \in 1..Len(@) |-> INDETERMINATE]]
    ELSE sb

LifetimeDestroy ==
    LET heap == string_builder_destroy(last.heap)
    IN  /\ Alive
        /\ string_builder' = Held(string_builder, heap)
        /\ last' = LifetimeCall("destroy", TRUE, FALSE, 0, heap, last.given)
        /\ UNCHANGED <<appended, only_appends>>

LifetimeDestroyExceptChain ==
    LET heap == string_builder_destroy_except_chain(last.heap)
    IN  /\ Alive
        /\ string_builder' = Held(string_builder, heap)
        /\ last' = LifetimeCall("destroy_except_chain", TRUE, FALSE, 0, heap,
                                last.given)
        /\ UNCHANGED <<appended, only_appends>>

\* After destroy_except_chain the caller frees the pointer result() gave it,
\* if no later call made the builder leave that block.
LifetimeFreeGiven ==
    LET heap == [last.heap EXCEPT !.frees = HeapFree(@, last.given)]
    IN  /\ last.op = "destroy_except_chain"
        /\ last.given # NULL
        /\ last.given = last.heap.chain
        /\ string_builder' = Held(string_builder, heap)
        /\ last' = LifetimeCall("free", TRUE, FALSE, 0, heap, last.given)
        /\ UNCHANGED <<appended, only_appends>>

LifetimeNext ==
    \/ LifetimeAppendAll
    \/ LifetimeRemove
    \/ LifetimeClear
    \/ LifetimeResult
    \/ LifetimeDestroy
    \/ LifetimeDestroyExceptChain
    \/ LifetimeFreeGiven

LifetimeSpec == LifetimeInit /\ [][LifetimeNext]_vars

----------------------------------------------------------------------------
(* The scenario runs: the calls of the unit tests on their own texts.  A    *)
(* run is a create followed by at most MaxScenarioCalls - 1 calls of        *)
(* append_all, remove and result, no append being taken that would leave    *)
(* more than MaxScenarioLen used characters; last.calls lists the calls     *)
(* made, with their arguments and, for remove, the direction in which       *)
(* memcpy copied.                                                           *)

MaxScenarioCalls == 4

MaxScenarioLen == 42

\* "Hello world, I am a fancy string builder"
ScenarioInput ==
    <<"H", "e", "l", "l", "o", " ", "w", "o", "r", "l", "d", ",", " ", "I",
      " ", "a", "m", " ", "a", " ", "f", "a", "n", "c", "y", " ", "s", "t",
      "r", "i", "n", "g", " ", "b", "u", "i", "l", "d", "e", "r">>

\* "I am a fancy string builder"
ScenarioExpected ==
    <<"I", " ", "a", "m", " ", "a", " ", "f", "a", "n", "c", "y", " ", "s",
      "t", "r", "i", "n", "g", " ", "b", "u", "i", "l", "d", "e", "r">>

ScenarioChains == {ScenarioInput, <<"H">>}

\* The capacities the tests create builders with: 1, 4 and the default.
ScenarioCapacities == {1, 4, DEFAULT_INITIAL_CAPACITY}

\* The ranges <<start_index, stop_index>> the tests remove.
ScenarioRanges == {<<0, 12>>, <<4, 5>>, <<10, 24>>, <<0, 1>>, <<0, 0>>}

\* clean: every call so far has succeeded.
ScenarioCall(op, ret, alloc_failed, calls, clean) ==
    [op |-> op, ret |-> ret, alloc_failed |-> alloc_failed, calls |-> calls,
     clean |-> clean]

ScenarioInit ==
    \E c \in ScenarioCapacities :
        /\ string_builder = string_builder_create(c)
        /\ last = ScenarioCall("create", TRUE, FALSE, <<<<"create", c>>>>, TRUE)
        /\ appended = <<>>
        /\ only_appends = TRUE

ScenarioAppendAll ==
    \E chain \in ScenarioChains, realloc_ok \in BOOLEAN :
        LET r == string_builder_append_all(string_builder, chain, realloc_ok)
        IN  /\ Len(last.calls) < MaxScenarioCalls
            /\ string_builder.used_capacity + Len(chain) <= MaxScenarioLen
            /\ string_builder' = Forget(r.sb)
            /\ last' = ScenarioCall("append_all", r.ret, r.realloc_failed,
                                    Append(last.calls, <<"append_all", chain>>),
                                    last.clean /\ r.ret)
            /\ UNCHANGED <<appended, only_appends>>

ScenarioRemove ==
    \E range \in ScenarioRanges, direction \in Directions :
        LET r == string_builder_remove(string_builder, range[1], range[2],
                                       direction)
        IN  /\ Len(last.calls) < MaxScenarioCalls
            /\ string_builder' = Forget(r.sb)
            /\ last' = ScenarioCall("remove", r.ret, FALSE,
                                    Append(last.calls,
                                           <<"remove", range[1], range[2], direction>>),
                                    last.clean /\ r.ret)
            /\ UNCHANGED <<appended, only_appends>>

ScenarioResult ==
    \E realloc_ok \in BOOLEAN :
        LET r == string_builder_result(string_builder, realloc_ok)
        IN  /\ Len(last.calls) < MaxScenarioCalls
            /\ string_builder' = Forget(r.sb)
            /\ last' = ScenarioCall("result", r.ret, r.realloc_failed,
                                    Append(last.calls, <<"result">>),
                                    last.clean /\ r.ret)
            /\ UNCHANGED <<appended, only_appends>>

ScenarioNext ==
    \/ ScenarioAppendAll
    \/ ScenarioRemove
    \/ ScenarioResult

ScenarioSpec == ScenarioInit /\ [][ScenarioNext]_vars

----------------------------------------------------------------------------
(* The growth loops, one iteration per step.  Three variants of the growth  *)
(* computation are run: "cached", string_builder_compute_new_size over a    *)
(* table (the scan of the table, then the recurrence); "direct", the        *)
(* compute_new_size of string-builder.c (the recurrence from the current    *)
(* capacity); and "loop", the earlier ensure_capacity whose while loop      *)
(* reallocates in every iteration.  last is the frame of the call:          *)
(* ensure_capacity(chars_amount) with needed = used_capacity +              *)
(* chars_amount, the table, the position pc in the code, the local          *)
(* new_size, and the value ret the call returns.  The builder is created    *)
(* with a capacity of 0 .. MaxFallbackCapacity and needed is at most        *)
(* MaxFallbackLen.                                                          *)

LoopVariants == {"cached", "direct", "loop"}

LoopFrame(variant, table, pc, needed, new_size, ret) ==
    [variant |-> variant, table |-> table, pc |-> pc, needed |-> needed,
     new_size |-> new_size, ret |-> ret]

\* A builder created with capacity c that holds `used` characters, its
\* cursor found in `table`.
LoopBuilder(table, c, used) ==
    [built_chain |-> [i \in 1..c |-> IF i <= used THEN "a" ELSE INDETERMINATE],
     used_capacity |-> used,
     max_capacity |-> c,
     current_sequence_index |->
         IF table = SEQUENCE
         THEN string_builder_compute_next_best_sequence_value_index(c)
         ELSE BinarySearch(table, c, 0, Len(table) - 1, 0)]

\* ensure_capacity(chars_amount) is entered on a builder that has not grown
\* yet: it holds at most capacity - 1 characters.
LoopInit ==
    \E variant \in LoopVariants, table \in {SEQUENCE, ShortSequence},
       c \in 0..MaxFallbackCapacity :
        \E used \in 0..(IF c = 0 THEN 0 ELSE c - 1) :
            \E chars_amount \in 1..(MaxFallbackLen - used) :
                /\ variant # "cached" => table = SEQUENCE
                /\ string_builder = LoopBuilder(table, c, used)
                /\ last = LoopFrame(variant, table,
                                    IF variant = "loop" THEN "while" ELSE "test",
                                    SizeAdd(used, chars_amount), 0, TRUE)
                /\ appended = <<>>
                /\ only_appends = TRUE

\* if (max_capacity - 1 >= used_capacity + chars_amount) return true;
\* otherwise compute_new_size is entered.
LoopTest ==
    /\ last.pc = "test"
    /\ last' = IF SizeSub(string_builder.max_capacity, 1) >= last.needed
               THEN [last EXCEPT !.pc = "done", !.new_size = string_builder.max_capacity]
               ELSE IF last.variant = "cached"
               THEN [last EXCEPT !.pc = "scan"]
               ELSE [last EXCEPT !.pc = "recurrence",
                                 !.new_size = string_builder.max_capacity]
    /\ UNCHANGED <<string_builder, appended, only_appends>>

\* The condition of the first while loop of compute_new_size.
ScanContinues ==
    /\ string_builder.current_sequence_index < Len(last.table)
    /\ SizeSub(last.table[string_builder.current_sequence_index + 1], 1) < last.needed

\* One iteration of the first while loop.
LoopScanStep ==
    /\ last.pc = "scan"
    /\ ScanContinues
    /\ string_builder' = [string_builder EXCEPT !.current_sequence_index = @ + 1]
    /\ UNCHANGED <<last, appended, only_appends>>

\* The first while loop is left: an entry of the table is taken, or the
\* recurrence starts from the last entry.
LoopScanExit ==
    /\ last.pc = "scan"
    /\ ~ScanContinues
    /\ IF string_builder.current_sequence_index < Len(last.table)
       THEN /\ last' = [last EXCEPT
                           !.pc = "done",
                           !.new_size =
                               last.table[string_builder.current_sequence_index + 1]]
            /\ string_builder' =
                   [string_builder EXCEPT !.current_sequence_index = @ + 1]
       ELSE /\ last' = [last EXCEPT !.pc = "recurrence",
                                    !.new_size = last.table[Len(last.table)]]
            /\ UNCHANGED string_builder
    /\ UNCHANGED <<appended, only_appends>>

\* One iteration of the recurrence loop.
LoopRecurrenceStep ==
    /\ last.pc = "recurrence"
    /\ SizeSub(last.new_size, 1) < last.needed
    /\ last' = [last EXCEPT !.new_size = GrowthStep(last.new_size)]
    /\ UNCHANGED <<string_builder, appended, only_appends>>

LoopRecurrenceExit ==
    /\ last.pc = "recurrence"
    /\ ~(SizeSub(last.new_size, 1) < last.needed)
    /\ last' = [last EXCEPT !.pc = "done"]
    /\ UNCHANGED <<string_builder, appended, only_appends>>

\* One iteration of the while loop of the earlier ensure_capacity: the next
\* size, and a realloc that succeeds or makes the call return false.
LoopWhileStep ==
    \E realloc_ok \in BOOLEAN :
        LET new_size == GrowthStep(string_builder.max_capacity)
        IN  /\ last.pc = "while"
            /\ SizeSub(string_builder.max_capacity, 1) < last.needed
            /\ IF realloc_ok
               THEN /\ string_builder' =
                           [string_builder EXCEPT
                               !.built_chain = Realloc(@, new_size),
                               !.max_capacity = new_size]
                    /\ last' = [last EXCEPT !.new_size = new_size]
               ELSE /\ last' = [last EXCEPT !.pc = "done", !.new_size = new_size,
                                            !.ret = FALSE]
                    /\ UNCHANGED string_builder
            /\ UNCHANGED <<appended, only_appends>>

LoopWhileExit ==
    /\ last.pc = "while"
    /\ ~(SizeSub(string_builder.max_capacity, 1) < last.needed)
    /\ last' = [last EXCEPT !.pc = "done", !.new_size = string_builder.max_capacity]
    /\ UNCHANGED <<string_builder, appended, only_appends>>

LoopNext ==
    \/ LoopTest
    \/ LoopScanStep
    \/ LoopScanExit
    \/ LoopRecurrenceStep
    \/ LoopRecurrenceExit
    \/ LoopWhileStep
    \/ LoopWhileExit

\* The code runs on: a step that can be taken is taken.
LoopSpec == LoopInit /\ [][LoopNext]_vars /\ WF_vars(LoopNext)

----------------------------------------------------------------------------
(* The paired runs: a builder that has been cleared and a builder that      *)
(* string_builder_create(1) has returned receive the same calls, with the   *)
(* same arguments, the same outcome of every allocation and the same        *)
(* memcpy.  string_builder is the cleared builder; last holds the other     *)
(* builder (fresh), the operation, what it returned for each of the two     *)
(* (ret, fresh_ret) and the array each caller was handed (out, fresh_out),  *)
(* <<>> where the operation hands out none.  The bounds are those of the    *)
(* runs of Spec, and as there the slots from used_capacity on are           *)
(* forgotten after every call.                                              *)

PairedCall(op, fresh, ret, fresh_ret, out, fresh_out) ==
    [op |-> op, fresh |-> fresh, ret |-> ret, fresh_ret |-> fresh_ret,
     out |-> out, fresh_out |-> fresh_out]

\* clear() has succeeded on a builder that held characters, and create(1)
\* has returned the other builder.
PairedInit ==
    \E c \in 0..MaxInitialCapacity, chain \in Chains :
        LET filled == string_builder_append_all(string_builder_create(c), chain, TRUE)
            cleared == string_builder_clear(filled.sb, TRUE)
        IN  /\ string_builder = cleared.sb
            /\ last = PairedCall("clear", string_builder_create(1), cleared.ret, TRUE,
                                 <<>>, <<>>)
            /\ appended = <<>>
            /\ only_appends = TRUE

PairedWithinBounds(cleared, fresh) ==
    /\ cleared.used_capacity <= MaxLen
    /\ fresh.used_capacity <= MaxLen
    /\ cleared.current_sequence_index <= MaxIndex
    /\ fresh.current_sequence_index <= MaxIndex

PairedAppendOne ==
    \E character \in Chars, realloc_ok \in BOOLEAN :
        LET r == string_builder_append_one(string_builder, character, realloc_ok)
            f == string_builder_append_one(last.fresh, character, realloc_ok)
        IN  /\ PairedWithinBounds(r.sb, f.sb)
            /\ string_builder' = Forget(r.sb)
            /\ last' = PairedCall("append_one", Forget(f.sb), r.ret, f.ret, <<>>, <<>>)
            /\ UNCHANGED <<appended, only_appends>>

PairedAppendAll ==
    \E chain \in Chains, realloc_ok \in BOOLEAN :
        LET r == string_builder_append_all(string_builder, chain, realloc_ok)
            f == string_builder_append_all(last.fresh, chain, realloc_ok)
        IN  /\ PairedWithinBounds(r.sb, f.sb)
            /\ string_builder' = Forget(r.sb)
            /\ last' = PairedCall("append_all", Forget(f.sb), r.ret, f.ret, <<>>, <<>>)
            /\ UNCHANGED <<appended, only_appends>>

PairedRemove ==
    \E start_index \in Indexes, stop_index \in Indexes, direction \in Directions :
        LET r == string_builder_remove(string_builder, start_index, stop_index,
                                       direction)
            f == string_builder_remove(last.fresh, start_index, stop_index,
                                       direction)
        IN  /\ PairedWithinBounds(r.sb, f.sb)
            /\ string_builder' = Forget(r.sb)
            /\ last' = PairedCall("remove", Forget(f.sb), r.ret, f.ret, <<>>, <<>>)
            /\ UNCHANGED <<appended, only_appends>>

PairedResult ==
    \E realloc_ok \in BOOLEAN :
        LET r == string_builder_result(string_builder, realloc_ok)
            f == string_builder_result(last.fresh, realloc_ok)
        IN  /\ string_builder' = Forget(r.sb)
            /\ last' = PairedCall("result", Forget(f.sb), r.ret, f.ret, r.out, f.out)
            /\ UNCHANGED <<appended, only_appends>>

PairedResultAsCopy ==
    \E malloc_ok \in BOOLEAN :
        LET r == string_builder_result_as_copy(string_builder, malloc_ok)
            f == string_builder_result_as_copy(last.fresh, malloc_ok)
        IN  /\ string_builder' = Forget(r.sb)
            /\ last' = PairedCall("result_as_copy", Forget(f.sb), r.ret, f.ret, r.out, f.out)
            /\ UNCHANGED <<appended, only_appends>>

PairedNext ==
    \/ PairedAppendOne
    \/ PairedAppendAll
    \/ PairedRemove
    \/ PairedResult
    \/ PairedResultAsCopy

PairedSpec == PairedInit /\ [][PairedNext]_vars

----------------------------------------------------------------------------
(* The FNV-1a hashes of core/hashes/fnv/fnv1a/fnv1a.c.  A uint32_t or      *)
(* uint64_t is the sequence of its 4 or 8 bytes, the lowest first, for the  *)
(* values exceed the integers of the checker.  A pointer to characters is   *)
(* a record [is_null, bytes]; a call's outcome is a record [crashed,        *)
(* is_null, value, allocated]: whether the call ended the process instead   *)
(* of returning, whether it returned NULL, the value it returned a pointer  *)
(* to, and whether the block of that value was allocated.                   *)

\* The texts hashed have at most MaxHashLen characters.
MaxHashLen == 6

\* The characters of the texts hashed: 'A' and ' '.
HashBytes == {65, 32}

\* 0x811c9dc5
INIT_32 == <<197, 157, 28, 129>>

\* 16777619 = 0x01000193
PRIME_32 == <<147, 1, 0, 1>>

\* 0xcbf29ce484222325
INIT_64 == <<37, 35, 34, 132, 228, 156, 242, 203>>

\* 1099511628211 = 0x00000100000001b3
PRIME_64 == <<179, 1, 0, 0, 0, 1, 0, 0>>

\* a ^ b on the lowest `bits` bits.
RECURSIVE BitXor(_, _, _)
BitXor(a, b, bits) ==
    IF bits = 0 THEN 0
    ELSE ((a + b) % 2) + 2 * BitXor(a \div 2, b \div 2, bits - 1)

\* (* hash) ^= (bytes[i] & 0xff)
XorByte(hash, byte) == [hash EXCEPT ![1] = BitXor(@, byte % 256, 8)]

\* a[1] * b[k] + a[2] * b[k - 1] + ... + a[i] * b[k - i + 1]
RECURSIVE Dot(_, _, _, _)
Dot(a, b, k, i) ==
    IF i = 0 THEN 0 ELSE a[i] * b[k - i + 1] + Dot(a, b, k, i - 1)

\* The bytes k .. Len(a) of the product of a and b, carry coming in.
RECURSIVE MulFrom(_, _, _, _)
MulFrom(a, b, k, carry) ==
    IF k > Len(a) THEN <<>>
    ELSE LET total == carry + Dot(a, b, k, k)
         IN  <<total % 256>> \o MulFrom(a, b, k + 1, total \div 256)

\* (* hash) *= prime, in the width of hash.
Times(hash, prime) == MulFrom(hash, prime, 1, 0)

\* The for loop of the hash functions, from index i on.
RECURSIVE HashLoop(_, _, _, _, _)
HashLoop(hash, prime, bytes, i, length) ==
    IF i < length
    THEN HashLoop(Times(XorByte(hash, bytes[i + 1]), prime), prime, bytes,
                  i + 1, length)
    ELSE hash

\* return NULL.
ReturnedNull ==
    [crashed |-> FALSE, is_null |-> TRUE, value |-> <<>>, allocated |-> FALSE]

\* The two bytes functions, which differ in their constants.
HashBytesWith(init, prime, bytes, length, malloc_ok) ==
    IF bytes.is_null THEN ReturnedNull
    ELSE IF length <= 0 THEN ReturnedNull
    ELSE IF ~malloc_ok THEN ReturnedNull
    ELSE [crashed |-> FALSE, is_null |-> FALSE,
          value |-> HashLoop(init, prime, bytes.bytes, 0, length),
          allocated |-> TRUE]

hashes_fnv1a_hash32_bytes(bytes, length, malloc_ok) ==
    HashBytesWith(INIT_32, PRIME_32, bytes, length, malloc_ok)

hashes_fnv1a_hash64_bytes(bytes, length, malloc_ok) ==
    HashBytesWith(INIT_64, PRIME_64, bytes, length, malloc_ok)

\* strlen(NULL) is undefined: the process is ended by the read through the
\* null pointer, or the call returns some length.
StrlenOfNull ==
    {[crashed |-> TRUE, length |-> 0]} \cup
    {[crashed |-> FALSE, length |-> n] : n \in 0..MaxHashLen}

\* strlen(text); undefined is what it does when text is NULL.
Strlen(text, undefined) ==
    IF text.is_null THEN undefined
    ELSE [crashed |-> FALSE, length |-> Len(text.bytes)]

\* The process ended inside the call.
Crashed ==
    [crashed |-> TRUE, is_null |-> TRUE, value |-> <<>>, allocated |-> FALSE]

hashes_fnv1a_hash32_str(text, malloc_ok, undefined) ==
    LET measured == Strlen(text, undefined)
    IN  IF measured.crashed THEN Crashed
        ELSE hashes_fnv1a_hash32_bytes(text, measured.length, malloc_ok)

hashes_fnv1a_hash64_str(text, malloc_ok, undefined) ==
    LET measured == Strlen(text, undefined)
    IN  IF measured.crashed THEN Crashed
        ELSE hashes_fnv1a_hash64_bytes(text, measured.length, malloc_ok)

\* The pointers a caller passes: NULL, or a text of 0 .. MaxHashLen
\* characters.
HashTexts ==
    {[is_null |-> TRUE, bytes |-> <<>>]} \cup
    {[is_null |-> FALSE, bytes |-> bytes] :
        bytes \in UNION {[1..n -> HashBytes] : n \in 0..MaxHashLen}}

\* The last call of a hash run: the function, the pointer and the length
\* passed (for the str functions the length is not an argument: 0), and the
\* call's outcome.
HashCall(op, text, length, outcome) ==
    [op |-> op, text |-> text, length |-> length, outcome |-> outcome]

\* The caller holds a text; no hash function has been called.  The hash
\* runs have no builder.
HashInit ==
    \E text \in HashTexts :
        /\ last = HashCall("none", text, 0, ReturnedNull)
        /\ string_builder = NULL
        /\ appended = <<>>
        /\ only_appends = TRUE

\* A length passed with a text is at most the text's; any length may come
\* with NULL.
Hash32Bytes ==
    \E length \in 0..MaxHashLen, malloc_ok \in BOOLEAN :
        /\ last.text.is_null \/ length <= Len(last.text.bytes)
        /\ last' = HashCall("hashes_fnv1a_hash32_bytes", last.text, length,
                            hashes_fnv1a_hash32_bytes(last.text, length, malloc_ok))
        /\ UNCHANGED <<string_builder, appended, only_appends>>

Hash32Str ==
    \E malloc_ok \in BOOLEAN, undefined \in StrlenOfNull :
        /\ last' = HashCall("hashes_fnv1a_hash32_str", last.text, 0,
                            hashes_fnv1a_hash32_str(last.text, malloc_ok, undefined))
        /\ UNCHANGED <<string_builder, appended, only_appends>>

Hash64Bytes ==
    \E length \in 0..MaxHashLen, malloc_ok \in BOOLEAN :
        /\ last.text.is_null \/ length <= Len(last.text.bytes)
        /\ last' = HashCall("hashes_fnv1a_hash64_bytes", last.text, length,
                            hashes_fnv1a_hash64_bytes(last.text, length, malloc_ok))
        /\ UNCHANGED <<string_builder, appended, only_appends>>

Hash64Str ==
    \E malloc_ok \in BOOLEAN, undefined \in StrlenOfNull :
        /\ last' = HashCall("hashes_fnv1a_hash64_str", last.text, 0,
                            hashes_fnv1a_hash64_str(last.text, malloc_ok, undefined))
        /\ UNCHANGED <<string_builder, appended, only_appends>>

HashNext ==
    \/ Hash32Bytes
    \/ Hash32Str
    \/ Hash64Bytes
    \/ Hash64Str

HashSpec == HashInit /\ [][HashNext]_vars

----------------------------------------------------------------------------
(* Properties *)

\* The used characters, as they lie in memory.
Content(sb) == [i \in 1..sb.used_capacity |-> Load(sb.built_chain, i - 1)]

\* content without the characters at offsets start_index .. stop_index.
Excise(content, start_index, stop_index) ==
    SubSeq(content, 1, start_index) \o SubSeq(content, stop_index + 2, Len(content))

Appends == {"append_one", "append_all"}

\* C1: in every reachable state length <= capacity (and, a terminator slot
\* being reserved, capacity >= length + 1, which implies it).  The formula
\* is the weaker half of the claim: a state that breaks it breaks the claim.
C1_LengthWithinCapacity ==
    string_builder.used_capacity <= string_builder.max_capacity

\* C2: growth never undershoots: in every reachable state and for every
\* n >= 1, when ensure_capacity(n) returns true the capacity afterwards is
\* at least length + n + 1, the sizes computed as size_t computes them.
C2_GrowthNeverUndershoots ==
    \A chars_amount \in 1..(MaxChain + 1), realloc_ok \in BOOLEAN :
        LET r == string_builder_ensure_capacity(string_builder, chars_amount,
                                                realloc_ok)
        IN  r.ret => r.sb.max_capacity >=
                         SizeAdd(SizeAdd(r.sb.used_capacity, chars_amount), 1)

\* C3: the number of slots allocated for the storage equals the recorded
\* capacity, in particular after result() has shrunk the storage.
C3_AllocatedEqualsCapacity ==
    Len(string_builder.built_chain) = string_builder.max_capacity

\* C4: while only appends (and result() calls) have been made, length is
\* the number of characters appended and result() returns exactly the
\* characters appended, in call order, followed by the terminator.
C4_AppendsConcatenate ==
    only_appends =>
        /\ string_builder.used_capacity = Len(appended)
        /\ \A out \in Resolve(string_builder_result(string_builder, TRUE).out) :
               out = appended \o <<NUL>>

\* C5: for 0 <= s <= e < length, a successful remove(s, e) leaves the
\* characters before s and after e in order and contiguous, decreases length
\* by e - s + 1 and leaves capacity unchanged.
C5_RemoveExcisesRange ==
    \A s \in Indexes, e \in Indexes, direction \in Directions :
        (s <= e /\ e < string_builder.used_capacity) =>
            LET r == string_builder_remove(string_builder, s, e, direction)
            IN  r.ret =>
                    /\ Content(r.sb) = Excise(Content(string_builder), s, e)
                    /\ r.sb.used_capacity =
                           string_builder.used_capacity - (e - s + 1)
                    /\ r.sb.max_capacity = string_builder.max_capacity

\* C6: on a builder that is not empty, remove(start_index, stop_index) with
\* start_index > stop_index returns false and leaves length, content and
\* capacity unchanged.
C6_RemoveRejectsInvertedRange ==
    \A start_index \in Indexes, stop_index \in Indexes, direction \in Directions :
        (string_builder.used_capacity > 0 /\ start_index > stop_index) =>
            LET r == string_builder_remove(string_builder, start_index, stop_index,
                                           direction)
            IN  ~r.ret /\ r.sb = string_builder

\* C7: remove with stop_index >= length returns false and leaves the
\* buffer unchanged, also when stop_index < capacity.
C7_RemoveBoundIsLength ==
    \A start_index \in Indexes, stop_index \in Indexes, direction \in Directions :
        stop_index >= string_builder.used_capacity =>
            LET r == string_builder_remove(string_builder, start_index, stop_index,
                                           direction)
            IN  ~r.ret /\ r.sb = string_builder

\* A remove has just failed on a builder that holds characters and whose
\* block has room beyond them: its stop_index was >= length, and such an
\* index below the capacity exists.
C7_Witness ==
    /\ last.op = "remove" /\ ~last.ret
    /\ string_builder.used_capacity >= 1
    /\ string_builder.used_capacity < string_builder.max_capacity
    /\ Len(string_builder.built_chain) = string_builder.max_capacity
    /\ ~string_builder_remove(string_builder, 0, string_builder.used_capacity,
                              "forward").ret

\* C8: remove on a builder of length 0 returns false for every pair of
\* indexes, whatever the capacity, and leaves the builder unchanged.
C8_RemoveFromEmptyFails ==
    \A start_index \in Indexes, stop_index \in Indexes, direction \in Directions :
        string_builder.used_capacity = 0 =>
            LET r == string_builder_remove(string_builder, start_index, stop_index,
                                           direction)
            IN  ~r.ret /\ r.sb = string_builder

\* A remove has just failed on an empty builder that has capacity.
C8_Witness ==
    /\ last.op = "remove" /\ ~last.ret
    /\ string_builder.used_capacity = 0
    /\ string_builder.max_capacity >= 1
    /\ ~string_builder_remove(string_builder, 0, 0, "forward").ret

\* C9: when the reallocation of an append fails, storage, length, capacity
\* and growth cursor are what they were before the call.
C9_GrowthAtomicOnFailure ==
    [][(last'.op \in Appends /\ last'.alloc_failed) =>
           string_builder' = string_builder]_vars

\* C10: append_one and append_all return false only if the reallocation of
\* the growth step failed, and true otherwise.
C10_AppendFailsOnlyOnRealloc ==
    last.op \in Appends => (last.ret <=> ~last.alloc_failed)

----------------------------------------------------------------------------
(* Properties of growth *)

\* The terms 1, 2, 4, 7, 11, 17, 26, ... of the growth sequence.
SequenceTerms == {SEQUENCE[i] : i \in 2..Len(SEQUENCE)}

\* The smallest term t of the sequence with t - 1 >= k.
SmallestTerm(k) ==
    CHOOSE t \in SequenceTerms :
        /\ t - 1 >= k
        /\ \A u \in SequenceTerms : u - 1 >= k => t <= u

\* C11: after create(1) and one successful append_all of k >= 1 characters
\* the length is k and the capacity, read after result(), is the smallest
\* term t of 1, 2, 4, 7, 11, 17, 26, ... with t - 1 >= k; for k = 15 it is 17.
C11_CapacityIsSmallestTerm ==
    (/\ last.op = "append_all" /\ last.ret /\ last.argument >= 1
     /\ last.before = string_builder_create(1)) =>
        LET r == string_builder_result(string_builder, TRUE)
        IN  /\ string_builder_size(string_builder) = last.argument
            /\ r.ret
            /\ string_builder_size(r.sb) = last.argument
            /\ string_builder_max_capacity(r.sb) = SmallestTerm(last.argument)
            /\ last.argument = 15 => string_builder_max_capacity(r.sb) = 17

\* create(1), then append_all of 15 characters has succeeded.
C11_Witness ==
    /\ last.op = "append_all" /\ last.ret /\ last.argument = 15
    /\ last.before = string_builder_create(1)
    /\ string_builder_size(string_builder) = 15
    /\ string_builder_max_capacity(string_builder) = 17

\* C12: after create(c), c >= 1, and successful appends only, the capacity
\* after each append is the one the direct-recurrence engine produces from
\* the builder before the call: the capacity before the call, grown by
\* new = floor(old * 3 / 2) + 1 until new - 1 >= length + n.
C12_TableEqualsRecurrence ==
    (last.op \in Appends /\ last.clean) =>
        string_builder.max_capacity =
            DirectEnsureCapacity(last.before, last.argument)

\* C13: over append_one / append_all calls, successful or failed, the
\* capacity never decreases, and when ensure_capacity has reallocated the
\* capacity is strictly greater than before the call.
C13_GrowthMonotonic ==
    last.op \in Appends =>
        /\ string_builder.max_capacity >= last.before.max_capacity
        /\ (last.reallocs >= 1 /\ ~last.alloc_failed) =>
               string_builder.max_capacity > last.before.max_capacity

\* An append has just reallocated a builder that had grown before.
C13_Witness ==
    /\ last.op \in Appends /\ last.reallocs = 1 /\ ~last.alloc_failed
    /\ last.before.used_capacity >= 1
    /\ string_builder.max_capacity > last.before.max_capacity

\* The index of the smallest entry of the table that is >= capacity.
SmallestIndexAtLeast(capacity) ==
    CHOOSE i \in 0..(SEQUENCE_SIZE - 1) :
        /\ SEQUENCE[i + 1] >= capacity
        /\ \A j \in 0..(i - 1) : SEQUENCE[j + 1] < capacity

\* C14: create(c) sets the growth cursor to the index of the smallest entry
\* of the cached table that is >= c.
C14_CursorInitialisedToSmallestEntry ==
    last.op = "create" =>
        string_builder.current_sequence_index = SmallestIndexAtLeast(last.argument)

\* The cursor has left the table.
PastTable(index) == index >= SEQUENCE_SIZE

\* C15: in every reachable state the growth cursor is past the end of the
\* cached table or indexes an entry whose value is >= the capacity.
C15_CursorEntryAtLeastCapacity ==
    \/ PastTable(string_builder.current_sequence_index)
    \/ SEQUENCE[string_builder.current_sequence_index + 1] >=
           string_builder.max_capacity

\* The index of the first entry of the table, at or after index `from`,
\* whose value minus 1 is >= needed.
FirstFit(from, needed) ==
    CHOOSE i \in from..(SEQUENCE_SIZE - 1) :
        /\ SEQUENCE[i + 1] - 1 >= needed
        /\ \A j \in from..(i - 1) : SEQUENCE[j + 1] - 1 < needed

\* C16: an append never moves the cursor backward; a call that does not grow
\* leaves it where it was; a call that grows takes as capacity the first
\* entry, at or after the cursor's position before the call, whose value
\* minus 1 is >= length + n, and leaves the cursor just past that entry.
C16_CursorForwardOnlyAsNeeded ==
    last.op \in Appends =>
        LET before == last.before
            fit == FirstFit(before.current_sequence_index,
                            before.used_capacity + last.argument)
        IN  /\ string_builder.current_sequence_index >=
                   before.current_sequence_index
            /\ last.reallocs = 0 =>
                   string_builder.current_sequence_index =
                       before.current_sequence_index
            /\ last.reallocs >= 1 =>
                   /\ string_builder.current_sequence_index = fit + 1
                   /\ ~last.alloc_failed =>
                          string_builder.max_capacity = SEQUENCE[fit + 1]

\* A growth call has just moved the cursor over several entries at once.
C16_Witness ==
    /\ last.op \in Appends /\ last.reallocs = 1 /\ ~last.alloc_failed
    /\ string_builder.current_sequence_index >
           last.before.current_sequence_index + 2
    /\ string_builder.max_capacity =
           SEQUENCE[string_builder.current_sequence_index]

\* The values new = floor(old * 3 / 2) + 1 produces from `from`, up to the
\* first one above limit.
RECURSIVE OrbitFrom(_, _)
OrbitFrom(from, limit) ==
    IF from > limit THEN {from}
    ELSE {from} \cup OrbitFrom(((from * 3) \div 2) + 1, limit)

\* The first of these values, starting from the table's last entry, whose
\* value minus 1 is >= needed.
FallbackSize(table, needed) ==
    LET orbit == OrbitFrom(table[Len(table)], needed + 1)
    IN  CHOOSE v \in orbit :
            /\ v - 1 >= needed
            /\ \A w \in orbit : w - 1 >= needed => v <= w

\* No entry of the table at or after index `from` holds needed characters
\* and the terminator.
TableExhausted(table, from, needed) ==
    \A i \in from..(Len(table) - 1) : table[i + 1] - 1 < needed

\* C17: when the cursor has exhausted the (shortened) table, a growth
\* request whose realloc succeeds yields the capacity obtained from the
\* table's last entry by new = floor(old * 3 / 2) + 1 applied until
\* new - 1 >= length + n; it is at least length + n + 1 and strictly
\* greater than the capacity before the call.
C17_FallbackRecurrence ==
    LET before == last.before
        needed == before.used_capacity + last.argument
    IN  (/\ last.op = "append_all" /\ last.reallocs >= 1 /\ ~last.alloc_failed
         /\ TableExhausted(ShortSequence, before.current_sequence_index, needed)) =>
            /\ last.ret
            /\ string_builder.max_capacity = FallbackSize(ShortSequence, needed)
            /\ string_builder.max_capacity >= needed + 1
            /\ string_builder.max_capacity > before.max_capacity
            /\ string_builder.used_capacity = needed

\* A growth by the fallback from a capacity the fallback had produced.
C17_Witness ==
    /\ last.op = "append_all" /\ last.reallocs >= 1 /\ ~last.alloc_failed
    /\ TableExhausted(ShortSequence, last.before.current_sequence_index,
                      last.before.used_capacity + last.argument)
    /\ last.before.max_capacity > ShortSequence[Len(ShortSequence)]
    /\ string_builder.max_capacity > last.before.max_capacity

\* C18: append_all of a chain of K characters makes exactly one growth
\* check and at most one reallocation, whatever K and the gap between the
\* capacity and length + K, and when it succeeds all K characters are in;
\* append_one makes at most one reallocation.
C18_SingleGrowthCheck ==
    /\ last.op = "append_all" =>
           /\ last.ensures = 1
           /\ last.reallocs <= 1
           /\ last.ret => string_builder.used_capacity =
                              last.before.used_capacity + last.argument
    /\ last.op = "append_one" => last.reallocs <= 1

\* An append_all of several characters has grown the builder over several
\* entries of the table with one reallocation.
C18_Witness ==
    /\ last.op = "append_all" /\ last.ret /\ last.argument >= 8
    /\ last.ensures = 1 /\ last.reallocs = 1
    /\ last.before.max_capacity <= 2
    /\ string_builder.max_capacity >= 11

----------------------------------------------------------------------------
(* Properties of result and result_as_copy *)

\* C19: in every reachable state two consecutive successful result() calls
\* return equal content, the length characters followed by the terminator,
\* and the length is the same after both.  The second call runs on the
\* memory as the first call left it; what either caller reads outside the
\* block is indeterminate.
C19_ResultIdempotent ==
    LET length == string_builder.used_capacity
        first == string_builder_result(string_builder, TRUE)
    IN  \A memory \in ResolveBlock(first.sb.built_chain, length + 1) :
            LET second == string_builder_result(
                              [first.sb EXCEPT !.built_chain = memory], TRUE)
            IN  /\ first.ret /\ second.ret
                /\ first.sb.used_capacity = length
                /\ second.sb.used_capacity = length
                /\ \A out1 \in Resolve(View(memory, length + 1)),
                      out2 \in Resolve(second.out) :
                       out1 = out2 /\ out1[length + 1] = NUL

\* C20: result_as_copy() returns an array of exactly length + 1 slots that
\* holds the length characters of the builder followed by the terminator,
\* and leaves the builder's storage, length, capacity and cursor unchanged.
\* (The array is a value of its own: no later call on the builder has it as
\* an argument.)
C20_CopyHoldsContent ==
    LET length == string_builder.used_capacity
    IN  \A memory \in ResolveBlock(string_builder.built_chain, length) :
            LET builder == [string_builder EXCEPT !.built_chain = memory]
                copy == string_builder_result_as_copy(builder, TRUE)
            IN  /\ copy.ret
                /\ Len(copy.out) = length + 1
                /\ copy.sb = builder
                /\ \A out \in Resolve(copy.out) :
                       out = View(memory, length) \o <<NUL>>

----------------------------------------------------------------------------
(* Properties of clear, create and the release of the builder *)

\* C21: after a successful clear() from any reachable state, length = 0,
\* capacity = 1, the storage is a block of one slot that holds the
\* terminator, result() returns the empty string without reallocating, and
\* length <= capacity.
C21_ClearResetsToOneSlot ==
    LET r == string_builder_clear(string_builder, TRUE)
    IN  /\ r.ret
        /\ r.sb.used_capacity = 0
        /\ r.sb.max_capacity = 1
        /\ r.sb.built_chain = <<NUL>>
        /\ r.sb.used_capacity <= r.sb.max_capacity
        /\ \A realloc_ok \in BOOLEAN :
               LET given == string_builder_result(r.sb, realloc_ok)
               IN  given.ret /\ ~given.oob /\ given.out = <<NUL>>
        /\ (last.op = "clear" /\ last.ret) =>
               /\ string_builder.used_capacity = 0
               /\ string_builder.max_capacity = 1
               /\ Len(string_builder.built_chain) = 1

\* A clear has just succeeded, and the builder it left grows again from its
\* one slot when a character is appended.
C21_Witness ==
    /\ last.op = "clear" /\ last.ret
    /\ string_builder.used_capacity = 0
    /\ string_builder.max_capacity = 1
    /\ string_builder_append_one(string_builder, "a", TRUE).sb.max_capacity = 2

\* C22: destroy_except_chain releases the struct and only it: the storage
\* stays allocated with its content unchanged, and the caller's free of the
\* pointer result() returned is the first release of that block; destroy
\* releases the storage and the struct, each once; no call releases a block
\* that has been released before.
C22_StorageReleasedOnce ==
    [][LET heap == last'.heap
       IN  /\ \A block \in 1..Len(heap.frees) : heap.frees[block] <= 1
           /\ last'.op = "destroy_except_chain" =>
                  /\ heap.frees[heap.record] = 1
                  /\ heap.frees[heap.chain] = 0
                  /\ heap.frees = HeapFree(last.heap.frees, heap.record)
                  /\ string_builder' = string_builder
           /\ last'.op = "destroy" =>
                  /\ heap.frees[heap.record] = 1
                  /\ heap.frees[heap.chain] = 1
           /\ last'.op = "free" => heap.frees[last'.given] = 1]_vars

\* The caller has freed the chain that result() returned before the builder
\* was destroyed except for its chain; the chain held characters and was
\* not the builder's first block.
C22_Witness ==
    /\ last.op = "free"
    /\ last.given = last.heap.chain
    /\ last.given > 2
    /\ last.heap.frees[last.given] = 1
    /\ last.heap.frees[last.heap.record] = 1
    /\ string_builder.used_capacity >= 1

\* C23: create(c) returns a builder for every c >= 0 when both of its
\* allocations succeed, with length 0, capacity exactly c (0 for c = 0) and
\* a result() that is not NULL when its own reallocation succeeds;
\* create_default() yields length 0 and capacity 16; when either allocation
\* fails create returns NULL and every block it allocated has been released.
C23_CreateYieldsEmptyBuilder ==
    /\ \A c \in LifetimeCapacities, chain_ok \in BOOLEAN, record_ok \in BOOLEAN :
           LET r == CreateAllocating(c, chain_ok, record_ok)
               given == string_builder_result(r.sb, TRUE)
           IN  /\ r.ret <=> (chain_ok /\ record_ok)
               /\ r.ret =>
                      /\ string_builder_size(r.sb) = 0
                      /\ string_builder_max_capacity(r.sb) = c
                      /\ Len(r.sb.built_chain) = c
                      /\ \A block \in 1..Len(r.heap.frees) : r.heap.frees[block] = 0
                      /\ given.ret /\ ~given.oob /\ given.out = <<NUL>>
               /\ ~r.ret =>
                      \A block \in 1..Len(r.heap.frees) : r.heap.frees[block] = 1
    /\ string_builder_size(string_builder_create_default) = 0
    /\ string_builder_max_capacity(string_builder_create_default) = 16
    /\ last.op = "create" =>
           IF last.ret
           THEN /\ string_builder.used_capacity = 0
                /\ string_builder.max_capacity = last.argument
                /\ last.heap.frees = <<0, 0>>
           ELSE /\ string_builder = NULL
                /\ \A block \in 1..Len(last.heap.frees) : last.heap.frees[block] = 1

\* create(0) has just returned a builder: its capacity is 0, no slot is
\* allocated, and result() on it is not NULL.
C23_Witness ==
    /\ last.op = "create" /\ last.ret
    /\ last.argument = 0
    /\ string_builder.max_capacity = 0
    /\ string_builder.built_chain = <<>>
    /\ string_builder_result(string_builder, TRUE).ret

----------------------------------------------------------------------------
(* Properties of the edge cases *)

\* C24: ensure_capacity(0) returns false in every builder state, calls no
\* realloc and leaves storage, length, capacity and cursor unchanged.
C24_EnsureZeroRejected ==
    \A realloc_ok \in BOOLEAN :
        LET r == string_builder_ensure_capacity(string_builder, 0, realloc_ok)
        IN  /\ ~r.ret
            /\ r.reallocs = 0
            /\ r.sb = string_builder

\* append_all has just been refused without a reallocation having failed,
\* on a builder with room to spare: it was called with the empty chain, for
\* which it asks ensure_capacity for 0 characters.
C24_Witness ==
    /\ last.op = "append_all" /\ ~last.ret /\ ~last.alloc_failed
    /\ string_builder.used_capacity >= 1
    /\ string_builder.max_capacity - 1 > string_builder.used_capacity
    /\ ~string_builder_append_all(string_builder, <<>>, TRUE).ret

\* The calls create(1); append_all(ScenarioInput); remove(0, 12) have been
\* made, all with success, memcpy having copied in the given direction.
ScenarioRemoveDone(direction) ==
    /\ last.calls = <<<<"create", 1>>, <<"append_all", ScenarioInput>>,
                      <<"remove", 0, 12, direction>>>>
    /\ last.clean

----------------------------------------------------------------------------
(* Properties of the FNV-1a hashes *)

HashBytesOps == {"hashes_fnv1a_hash32_bytes", "hashes_fnv1a_hash64_bytes"}

HashStrOps == {"hashes_fnv1a_hash32_str", "hashes_fnv1a_hash64_str"}

\* C26: each FNV-1a entry point answers invalid input by returning NULL and
\* allocating no hash value: the bytes functions when bytes is NULL or
\* length is 0, the str functions when text is NULL or has length 0.
C26_HashInvalidInputReturnsNull ==
    LET invalid ==
            \/ last.op \in HashBytesOps /\ (last.text.is_null \/ last.length = 0)
            \/ last.op \in HashStrOps /\ (last.text.is_null \/ last.text.bytes = <<>>)
    IN  invalid =>
            /\ ~last.outcome.crashed
            /\ last.outcome.is_null
            /\ ~last.outcome.allocated

----------------------------------------------------------------------------
(* Properties of the table and of the growth loops *)

\* C27: the cached table is the recurrence sequence: SEQUENCE[0] = 0 and
\* every later entry is floor(3 * previous / 2) + 1, which is what the
\* recurrence of compute_new_size yields from the previous entry; hence the
\* table is strictly increasing, and a capacity a growth takes from the
\* table is the recurrence applied to the entry before it.
C27_TableIsRecurrence ==
    /\ (last.op \in Appends /\ last.ret /\ last.reallocs = 1
           /\ ~PastTable(string_builder.current_sequence_index)) =>
           string_builder.max_capacity =
               GrowthStep(SEQUENCE[string_builder.current_sequence_index - 1])
    /\ SEQUENCE[1] = 0
    /\ \A i \in 1..(SEQUENCE_SIZE - 1) :
           /\ SEQUENCE[i + 1] = ((SEQUENCE[i] * 3) \div 2) + 1
           /\ SEQUENCE[i + 1] = GrowthStep(SEQUENCE[i])
           /\ SEQUENCE[i] < SEQUENCE[i + 1]
    /\ \A i \in 1..SEQUENCE_SIZE, j \in 1..SEQUENCE_SIZE :
           i < j => SEQUENCE[i] < SEQUENCE[j]

\* An append has just grown the builder to an entry of the table that the
\* forward scan reached by passing smaller entries, and that entry is the
\* recurrence applied to the entry before it.
C27_Witness ==
    /\ last.op = "append_all" /\ last.ret /\ last.reallocs = 1
    /\ string_builder.current_sequence_index >= last.before.current_sequence_index + 2
    /\ string_builder.current_sequence_index <= SEQUENCE_SIZE
    /\ string_builder.max_capacity = SEQUENCE[string_builder.current_sequence_index]
    /\ string_builder.max_capacity =
           GrowthStep(SEQUENCE[string_builder.current_sequence_index - 1])

\* C28: memory safety: in every reachable state (in particular after
\* result() has shrunk the storage, and on a builder created with capacity
\* 0), every character an operation writes, the terminator written by
\* result() included, is stored at an offset below the number of slots
\* allocated for the storage.
C28_WritesWithinBlock ==
    /\ \A character \in Chars, realloc_ok \in BOOLEAN :
           ~string_builder_append_one(string_builder, character, realloc_ok).oob
    /\ \A chain \in Chains, realloc_ok \in BOOLEAN :
           ~string_builder_append_all(string_builder, chain, realloc_ok).oob
    /\ \A realloc_ok \in BOOLEAN :
           ~string_builder_result(string_builder, realloc_ok).oob
    /\ \A start_index \in Indexes, stop_index \in Indexes, direction \in Directions :
           string_builder_remove(string_builder, start_index, stop_index,
                                 direction).ret =>
               ~Outside(string_builder.built_chain, start_index,
                        SizeSub(string_builder.used_capacity, stop_index + 1))

\* C29: every growth computation terminates: the recurrence step strictly
\* increases every size from 0 on (it does not get stuck at 1), and the
\* loops of compute_new_size (the scan of the table, then the recurrence),
\* of the direct recurrence and of the reallocating while loop come to
\* their end, with a size v for which v - 1 >= length + n as size_t
\* computes it unless a reallocation failed.
C29_GrowthTerminates ==
    /\ [](\A size \in 0..last.needed : GrowthStep(size) > size)
    /\ [](last.pc = "recurrence" => GrowthStep(last.new_size) > last.new_size)
    /\ [](last.pc = "while" =>
             GrowthStep(string_builder.max_capacity) > string_builder.max_capacity)
    /\ <>(last.pc = "done")
    /\ []((last.pc = "done" /\ last.ret) => SizeSub(last.new_size, 1) >= last.needed)

\* The computation over the shortened table has ended after the scan ran
\* off the table and the recurrence iterated.
C29_Witness ==
    /\ last.pc = "done"
    /\ last.variant = "cached"
    /\ last.table = ShortSequence
    /\ string_builder.current_sequence_index = Len(ShortSequence)
    /\ last.new_size > GrowthStep(ShortSequence[Len(ShortSequence)])
    /\ last.new_size - 1 >= last.needed

----------------------------------------------------------------------------
(* Properties of a cleared builder beside a fresh one *)

====
